---------------------------- MODULE Spec2Model ----------------------------
(***************************************************************************)
(* fast-md5-web: the chunked / parallel / incremental MD5 engine.          *)
(*                                                                         *)
(*   src/src/lib.rs       the multi-task engine ("native" below):          *)
(*                        Md5Calculator::new, calculate_md5_async (the     *)
(*                        parallel digest), calculate_md5 (its wrapper),   *)
(*                        calculate_md5_single_async                       *)
(*   src/wasm/src/lib.rs  the streaming engine ("wasm" below):             *)
(*                        calculate_md5_async (the streamed digest) and    *)
(*                        the incremental sessions kept in HASH_STATES     *)
(*                                                                         *)
(* The md5 crate is an external primitive.  It is modelled as a small      *)
(* Merkle-Damgard hash with a block buffer, a padding step and a 16-byte   *)
(* output, so that absorbing an input in pieces and absorbing it at once   *)
(* are different computations.  Strings are sequences of one-character     *)
(* strings.  Sizes are scaled: the code's 1024 is the definition KiB.      *)
(***************************************************************************)
EXTENDS Integers, Sequences, FiniteSets, TLC

\* ------------------------------------------------------------------ bounds
\* bytes in a "KiB" of the model (the code: 1024); every size keeps its ratio
KiB == 1
\* longest explicitly enumerated input of the small-input specifications
MaxLen == 4
\* largest task count requested from the constructor
MaxTaskCount == 5
\* most updates fed to one session between start and finalize
MaxUpdates == 2

\* ------------------------------------------------------- program constants
BlockLen == 64
DigestLen == 16
DefaultTaskCount == 4

\* byte values the enumerated inputs are built from
Bytes == {0, 255}

Min(a, b) == IF a < b THEN a ELSE b

\* ------------------------------------------------------------ md5 primitive
HashMod == 65521

HashVals == 0..(HashMod - 1)

\* An intermediate value that is used more than once is drawn from a singleton
\* set (CHOOSE r \in {f(x) : x \in {e}} : TRUE is f(e)), which computes it once
\* however the definition is evaluated.

\* the chaining value after the bytes lo..hi of a block, in order
RECURSIVE CompressFrom(_, _, _, _)
CompressFrom(h, block, lo, hi) ==
    IF lo > hi THEN h
    ELSE IF lo = hi THEN (h * 31 + block[lo] + 1) % HashMod
    ELSE LET mid == (lo + hi) \div 2
         IN  CHOOSE r \in {CompressFrom(left, block, mid + 1, hi) :
                              left \in {CompressFrom(h, block, lo, mid)}} : TRUE

\* one application of the compression function to one block
Compress(h, block) ==
    CHOOSE r \in {CompressFrom((h * 7 + 3) % HashMod, b, 1, Len(b)) :
                     b \in {block}} : TRUE

\* the chaining value after the whole blocks lo..hi of s, in order
RECURSIVE AbsorbBlocks(_, _, _, _)
AbsorbBlocks(h, s, lo, hi) ==
    IF lo > hi THEN h
    ELSE IF lo = hi
    THEN Compress(h, SubSeq(s, (lo - 1) * BlockLen + 1, lo * BlockLen))
    ELSE LET mid == (lo + hi) \div 2
         IN  CHOOSE r \in {AbsorbBlocks(left, s, mid + 1, hi) :
                              left \in {AbsorbBlocks(h, s, lo, mid)}} : TRUE

\* Md5::new()
Md5New == [h |-> 1, buf |-> <<>>, len |-> 0]

\* hasher.update(data): whole blocks are compressed, the rest stays buffered
Md5Update(st, data) ==
    CHOOSE r \in UNION
        {{LET nfull == Len(total) \div BlockLen
          IN  [h   |-> AbsorbBlocks(s.h, total, 1, nfull),
               buf |-> SubSeq(total, nfull * BlockLen + 1, Len(total)),
               len |-> s.len + Len(d)] :
            total \in {s.buf \o d}} :
           s \in {st}, d \in {data}} : TRUE

\* hasher.finalize(): padding block with the total length, then the 16 bytes
Md5Finalize(st) ==
    CHOOSE r \in
        {LET lo == hf % 256
             hi == hf \div 256
         IN  [j \in 1..DigestLen |->
                 IF j = 1 THEN lo
                 ELSE IF j = 2 THEN hi
                 ELSE (lo * j + hi * (j + 1) + j) % 256] :
           hf \in {CHOOSE c \in
                      {Compress(s.h, s.buf \o <<128, s.len % 256,
                                               (s.len \div 256) % 256>>) :
                         s \in {st}} : TRUE}} : TRUE

\* ---------------------------------------------------------- DigestFormatter
HexChars == <<"0", "1", "2", "3", "4", "5", "6", "7",
              "8", "9", "a", "b", "c", "d", "e", "f">>

RECURSIVE HexFrom(_, _)
HexFrom(bytes, i) ==
    IF i > Len(bytes) THEN <<>>
    ELSE <<HexChars[(bytes[i] \div 16) + 1], HexChars[(bytes[i] % 16) + 1]>>
         \o HexFrom(bytes, i + 1)

\* format!("{:x}", hash)
FormatHex(bytes) == CHOOSE r \in {HexFrom(b, 1) : b \in {bytes}} : TRUE

\* (mutant) the length is taken as a number of bits
TruncateAsBits(hash_string, md5_length) ==
    SubSeq(hash_string, 1, Min(md5_length \div 4, Len(hash_string)))

\* match md5_length { 16 => ..[..16], 32 => all, _ => ..[..min(n, len)] }
Truncate(hash_string, md5_length) ==
    CHOOSE r \in
        {CASE md5_length = 16 -> SubSeq(s, 1, 16)
           [] md5_length = 32 -> s
           [] OTHER -> SubSeq(s, 1, Min(md5_length, Len(s))) :
           s \in {hash_string}} : TRUE


\* ------------------------------------------------------------------- state
VARIABLES
    lib,          \* which of the two crates is loaded: "native" or "wasm"
    requested_count,  \* history: the task_count argument given to Md5Calculator::new
    task_count,   \* native Md5Calculator.task_count
    enable_log,   \* native Md5Calculator.enable_log
    par,          \* the invocation of the parallel calculate_md5_async
    single,       \* the last call of calculate_md5_single_async
    wasm_log,     \* wasm Md5Calculator.enable_log, per engine instance
    str,          \* the invocations of the streamed calculate_md5_async
    table_lock,   \* the holder of the mutex of HASH_STATES, or "free"
    HASH_STATES,  \* the static session table: session id -> Md5
    call,         \* the last session call and what it returned
    fed,          \* history: the chunks given to each live session since its start
    own           \* history: per engine, the sessions it started and fed itself

vars == <<lib, requested_count, task_count, enable_log, par, single, wasm_log, str,
          table_lock, HASH_STATES, call, fed, own>>
nativeVars == <<requested_count, task_count, enable_log, par, single>>
wasmVars == <<wasm_log, str, table_lock, HASH_STATES, call, fed, own>>

\* --------------------------------------------------------- inputs of the model
RECURSIVE SeqsUpTo(_)
SeqsUpTo(n) ==
    IF n = 0 THEN {<<>>}
    ELSE LET shorter == SeqsUpTo(n - 1)
         IN  shorter \cup {Append(s, b) : s \in {t \in shorter : Len(t) = n - 1}, b \in Bytes}

\* every byte sequence over Bytes of length 0..MaxLen
SmallInputs == SeqsUpTo(MaxLen)

\* a long input: length len, contents fixed by seed
Pattern(len, seed) == [i \in 1..len |-> (i * seed + (i \div 7)) % 256]

\* requested digest lengths: none, a short prefix, the two named cases, too long
Lengths == {0, 5, 16, 32, 100}

\* ============================================================ native engine
\* (mutant) the constructor stores the task count it is given
Md5CalculatorNewAsGiven(requested) == requested

\* Md5Calculator::new(task_count)
Md5CalculatorNew(requested) ==
    IF requested = 0 THEN DefaultTaskCount ELSE requested

\* (mutant) the configured task count is used whatever the data length
ActualTaskCountUnclamped(tc, data_len) == tc

\* let actual_task_count = std::cmp::min(self.task_count, data_len)
ActualTaskCount(tc, data_len) == Min(tc, data_len)

\* let start = i * chunk_size
SliceStart(i, chunk_size) == i * chunk_size

\* (mutant) the last slice does not absorb the remainder
SliceEndNoRemainder(i, k, chunk_size, remainder) ==
    SliceStart(i, chunk_size) + chunk_size

\* let end = if i == actual_task_count - 1 { start + chunk_size + remainder }
\*           else { start + chunk_size }
SliceEnd(i, k, chunk_size, remainder) ==
    IF i = k - 1 THEN SliceStart(i, chunk_size) + chunk_size + remainder
    ELSE SliceStart(i, chunk_size) + chunk_size

\* data[start..end].to_vec()
Slice(data, start, end) == SubSeq(data, start + 1, end)

\* the body of one task up to its hash_result
TaskDigest(chunk) == Md5Finalize(Md5Update(Md5New, chunk))

\* (mutant) the slot is the number of tasks that completed before
ResultSlotByArrival(i, done) == Cardinality(done)

\* results_guard[i] = hash_result: the slot task i writes
ResultSlot(i, done) == i

RECURSIVE FeedResults(_, _, _, _)
FeedResults(hasher, results, i, k) ==
    IF i >= k THEN hasher
    ELSE FeedResults(Md5Update(hasher, results[i]), results, i + 1, k)

\* (mutant) a single slice is not hashed again
CombineResultsSimplified(results, k) ==
    IF k = 1 THEN results[0] ELSE Md5Finalize(FeedResults(Md5New, results, 0, k))

\* for chunk_hash in results_guard.iter() { final_hasher.update(chunk_hash) }
\* final_hasher.finalize()
CombineResults(results, k) == Md5Finalize(FeedResults(Md5New, results, 0, k))

\* a mutex nobody holds
Free == "free"

\* (mutant) the caller takes its results guard before the join
LockAtJoinHeld == "caller"

\* the holder of the results mutex while the caller awaits join_all(tasks): the
\* caller first calls results.lock() after the await
LockAtJoin == Free

\* (mutant) the join returns with the first task that completes
AnyTaskComplete(p) == p.done # {}

\* (mutant) the join waits for as many tasks as the engine is configured with
ConfiguredTasksComplete(p) == Cardinality(p.done) = task_count

\* join_all(tasks).await returns when every task has completed
AllTasksComplete(p) == p.done = DOMAIN p.tasks

\* lock: the holder of the results mutex; writers: history, per result slot the
\* tasks that wrote it, in order
ParIdle ==
    [pc |-> "idle", via |-> "none", data |-> <<>>, md5_length |-> 0,
     actual_task_count |-> 0, chunk_size |-> 0, remainder |-> 0,
     tasks |-> <<>>, results |-> <<>>, lock |-> Free, writers |-> <<>>,
     done |-> {}, order |-> <<>>,
     ret |-> <<>>]

SingleIdle == [pc |-> "idle", data |-> <<>>, md5_length |-> 0, ret |-> <<>>]

\* calculate_md5_async (via = "calculate_md5_async") or its wrapper calculate_md5,
\* up to the join_all(tasks).await
ParStart(via, data, md5_length) ==
    /\ lib = "native"
    /\ par.pc = "idle"
    /\ LET data_len == Len(data)
           k == ActualTaskCount(task_count, data_len)
       IN  IF data_len = 0
           THEN par' = [ParIdle EXCEPT !.pc = "done", !.via = via,
                                       !.md5_length = md5_length]
           ELSE LET chunk_size == data_len \div k
                    remainder == data_len % k
                IN  par' = [pc |-> "join", via |-> via, data |-> data,
                            md5_length |-> md5_length,
                            actual_task_count |-> k,
                            chunk_size |-> chunk_size,
                            remainder |-> remainder,
                            tasks |-> [i \in 0..(k - 1) |->
                                         [start |-> SliceStart(i, chunk_size),
                                          end |-> SliceEnd(i, k, chunk_size, remainder)]],
                            results |-> [i \in 0..(k - 1) |-> <<>>],
                            lock |-> LockAtJoin,
                            writers |-> [i \in 0..(k - 1) |-> <<>>],
                            done |-> {},
                            order |-> <<>>,
                            ret |-> <<>>]
    /\ UNCHANGED <<lib, requested_count, task_count, enable_log, single, wasmVars>>

\* one task of join_all runs to completion (the tasks hold no await; the model
\* lets them complete in any order and records that order in par.order); its
\* results guard lives in the inner block only, so the mutex is free again
\* when the task ends
ParTask(i) ==
    /\ lib = "native"
    /\ par.pc = "join"
    /\ i \in DOMAIN par.tasks
    /\ i \notin par.done
    /\ par.lock = Free
    /\ LET chunk == Slice(par.data, par.tasks[i].start, par.tasks[i].end)
           slot == ResultSlot(i, par.done)
       IN  par' = [par EXCEPT !.results[slot] = TaskDigest(chunk),
                              !.writers[slot] = Append(@, i),
                              !.done = @ \cup {i},
                              !.order = Append(@, i)]
    /\ UNCHANGED <<lib, requested_count, task_count, enable_log, single, wasmVars>>

\* join_all has returned: lock the results, combine, format, truncate, return
\* (the guard is dropped with the return)
ParJoin ==
    /\ lib = "native"
    /\ par.pc = "join"
    /\ AllTasksComplete(par)
    /\ par.lock = Free
    /\ par' = [par EXCEPT
                 !.pc = "done",
                 !.ret = Truncate(FormatHex(CombineResults(par.results,
                                                           par.actual_task_count)),
                                  par.md5_length)]
    /\ UNCHANGED <<lib, requested_count, task_count, enable_log, single, wasmVars>>

\* the caller has the returned string; the future and its locals are dropped
ParReturn ==
    /\ lib = "native"
    /\ par.pc = "done"
    /\ par' = ParIdle
    /\ UNCHANGED <<lib, requested_count, task_count, enable_log, single, wasmVars>>

\* calculate_md5_single_async(data, md5_length, enable_log)
SingleDigest(data, md5_length) ==
    Truncate(FormatHex(Md5Finalize(Md5Update(Md5New, data))), md5_length)

CalculateMd5Single(data, md5_length) ==
    /\ lib = "native"
    /\ single' = [pc |-> "done", data |-> data, md5_length |-> md5_length,
                  ret |-> SingleDigest(data, md5_length)]
    /\ UNCHANGED <<lib, requested_count, task_count, enable_log, par, wasmVars>>

\* set_log_enabled(&mut self, enable): no invocation borrows the engine
SetLogEnabled(enable) ==
    /\ lib = "native"
    /\ par.pc # "join"
    /\ enable_log' = enable
    /\ UNCHANGED <<lib, requested_count, task_count, par, single, wasmVars>>


\* ============================================================== wasm engine
MiB == 1024 * KiB

\* if data_len > 512 * 1024
StreamThreshold == 512 * KiB

\* if processed % (2 * 1024 * 1024) == 0
YieldEvery == 2 * MiB

\* let chunk_size = if data_len > 10 * 1024 * 1024 { 256 * 1024 } else { 128 * 1024 }
ChunkSize(data_len) ==
    IF data_len > 10 * MiB THEN 256 * KiB ELSE 128 * KiB

\* the next item of data.chunks(chunk_size), the bytes before it being processed
NextChunk(data, chunk_size, processed) ==
    SubSeq(data, processed + 1, Min(processed + chunk_size, Len(data)))

\* (mutant) the loop suspends after every chunk from the first 2 MiB on
YieldsAtOrPast(processed) == processed >= YieldEvery

\* whether the loop suspends after a chunk
YieldsAt(processed) == processed % YieldEvery = 0

\* the chunk loop from one suspension to the next, or to its end
RECURSIVE RunChunks(_, _, _, _)
RunChunks(hasher, data, chunk_size, processed) ==
    IF processed >= Len(data)
    THEN [hasher |-> hasher, processed |-> processed, suspended |-> FALSE]
    ELSE CHOOSE r \in UNION
           {{LET p2 == processed + Len(chunk)
             IN  IF YieldsAt(p2)
                 THEN [hasher |-> h2, processed |-> p2, suspended |-> TRUE]
                 ELSE RunChunks(h2, data, chunk_size, p2) :
               h2 \in {Md5Update(hasher, chunk)}} :
              chunk \in {NextChunk(data, chunk_size, processed)}} : TRUE

\* hasher.finalize(), format, truncate
FinishDigest(hasher, md5_length) ==
    Truncate(FormatHex(Md5Finalize(hasher)), md5_length)

NoHasher == [h |-> 0 - 1, buf |-> <<>>, len |-> 0]

StrIdle ==
    [pc |-> "idle", eng |-> 0, data |-> <<>>, md5_length |-> 0,
     hasher |-> NoHasher, chunk_size |-> 0, processed |-> 0, yields |-> 0,
     segment |-> 0, overlapped |-> FALSE, ret |-> <<>>]

\* history: invocation i runs while another invocation is suspended
Overlaps(i) == \E j \in DOMAIN str \ {i} : str[j].pc = "yield"

\* (mutant) one hasher is shared by the suspended invocations
ResumeHasherShared(i) ==
    LET j == CHOOSE x \in DOMAIN str :
                 /\ str[x].pc = "yield"
                 /\ \A y \in DOMAIN str : str[y].pc = "yield" => x <= y
    IN  str[j].hasher

\* the local hasher of invocation i, kept in its own future across the await
ResumeHasher(i) == str[i].hasher

\* (mutant) the hash state does not survive the suspension
AfterRunLosingState(inv, run) ==
    IF run.suspended
    THEN [inv EXCEPT !.pc = "yield", !.hasher = Md5New,
                     !.processed = run.processed,
                     !.yields = @ + 1,
                     !.segment = run.processed - inv.processed]
    ELSE [inv EXCEPT !.pc = "done", !.hasher = run.hasher,
                     !.processed = run.processed,
                     !.segment = run.processed - inv.processed,
                     !.ret = FinishDigest(run.hasher, inv.md5_length)]

\* the state of an invocation after a run of the chunk loop
AfterRun(inv, run) ==
    CHOOSE after \in
        {IF r.suspended
         THEN [inv EXCEPT !.pc = "yield", !.hasher = r.hasher,
                          !.processed = r.processed,
                          !.yields = @ + 1,
                          !.segment = r.processed - inv.processed]
         ELSE [inv EXCEPT !.pc = "done", !.hasher = r.hasher,
                          !.processed = r.processed,
                          !.segment = r.processed - inv.processed,
                          !.ret = FinishDigest(r.hasher, inv.md5_length)] :
           r \in {run}} : TRUE

\* calculate_md5_async(data, md5_length) of wasm engine e as invocation i, to
\* its first suspension or to its return
StreamStart(e, i, data, md5_length) ==
    /\ lib = "wasm"
    /\ str[i].pc = "idle"
    /\ LET data_len == Len(data)
           fresh == [StrIdle EXCEPT !.eng = e, !.data = data,
                                   !.md5_length = md5_length,
                                   !.overlapped = Overlaps(i)]
       IN  IF data_len = 0
           THEN str' = [str EXCEPT ![i] = [fresh EXCEPT !.pc = "done"]]
           ELSE IF data_len > StreamThreshold
           THEN LET cs == ChunkSize(data_len)
                    inv == [fresh EXCEPT !.hasher = Md5New, !.chunk_size = cs]
                IN  str' = [str EXCEPT ![i] =
                              AfterRun(inv, RunChunks(Md5New, data, cs, 0))]
           ELSE LET hasher == Md5Update(Md5New, data)
                IN  str' = [str EXCEPT ![i] =
                              [fresh EXCEPT !.pc = "done", !.hasher = hasher,
                                            !.processed = data_len,
                                            !.segment = data_len,
                                            !.ret = FinishDigest(hasher, md5_length)]]
    /\ UNCHANGED <<lib, nativeVars, wasm_log, table_lock, HASH_STATES, call, fed, own>>

\* the host resolves the promise: the loop goes on where it stopped
StreamResume(i) ==
    /\ lib = "wasm"
    /\ str[i].pc = "yield"
    /\ LET inv == [str[i] EXCEPT !.overlapped = @ \/ Overlaps(i)]
       IN  str' = [str EXCEPT ![i] =
                     AfterRun(inv, RunChunks(ResumeHasher(i), inv.data,
                                             inv.chunk_size, inv.processed))]
    /\ UNCHANGED <<lib, nativeVars, wasm_log, table_lock, HASH_STATES, call, fed, own>>

\* the caller has the returned string; the future and its locals are dropped
StreamReturn(i) ==
    /\ lib = "wasm"
    /\ str[i].pc = "done"
    /\ str' = [str EXCEPT ![i] = StrIdle]
    /\ UNCHANGED <<lib, nativeVars, wasm_log, table_lock, HASH_STATES, call, fed, own>>

\* set_log_enabled(&mut self, enable) on engine e: no suspended invocation
\* borrows the engine
WasmSetLogEnabled(e, enable) ==
    /\ lib = "wasm"
    /\ \A i \in DOMAIN str : ~(str[i].pc = "yield" /\ str[i].eng = e)
    /\ wasm_log' = [wasm_log EXCEPT ![e] = enable]
    /\ UNCHANGED <<lib, nativeVars, str, table_lock, HASH_STATES, call, fed, own>>


\* ----------------------------------------------------------------- sessions
\* Each session function takes the guard of HASH_STATES at its first line and
\* drops it at its closing brace; none of them awaits.
Present(table, id) == id \in DOMAIN table

\* (mutant) an id already in the table keeps its state
InsertIfAbsent(table, id, hasher) ==
    [x \in DOMAIN table \cup {id} |-> IF x \in DOMAIN table THEN table[x] ELSE hasher]

\* states.insert(session_id.to_string(), Md5::new())
Insert(table, id, hasher) ==
    [x \in DOMAIN table \cup {id} |-> IF x = id THEN hasher ELSE table[x]]

\* (mutant) the entry stays in the table
RemoveNothing(table, id) == table

\* (mutant) every entry leaves the table
RemoveEvery(table, id) == [x \in {} |-> Md5New]

\* states.remove(session_id)
Remove(table, id) == [x \in DOMAIN table \ {id} |-> table[x]]

\* (mutant) the update starts the entry's hasher afresh
UpdateEntryAfresh(table, id, data) ==
    [table EXCEPT ![id] = Md5Update(Md5New, data)]

\* hasher.update(data) on the entry found by states.get_mut(session_id)
UpdateEntry(table, id, data) ==
    [table EXCEPT ![id] = Md5Update(@, data)]

RECURSIVE Flatten(_)
Flatten(chunks) ==
    IF chunks = <<>> THEN <<>> ELSE Head(chunks) \o Flatten(Tail(chunks))

Never == [st |-> "never", chunks |-> <<>>]
Live(chunks) == [st |-> "live", chunks |-> chunks]
Closed == [st |-> "closed", chunks |-> <<>>]

CallNone ==
    [tick |-> 0, op |-> "none", eng |-> 0, id |-> "", md5_length |-> 0,
     found |-> FALSE, was |-> "never", chunks |-> <<>>,
     susp |-> FALSE, ok |-> FALSE, ret |-> <<>>,
     own_ok |-> FALSE, own_ret |-> <<>>]

\* the record of a session call: what it found (found: in the table; was,
\* chunks: the session's history before the call; susp: a streamed digest
\* suspended at a yield), what it returned (ok, ret),
\* and what it returns on a table that holds only engine e's own sessions
\* (own_ok, own_ret)
Called(op, e, id, md5_length, ok, ret, own_ok, own_ret) ==
    [tick |-> 1 - call.tick, op |-> op, eng |-> e, id |-> id,
     md5_length |-> md5_length,
     found |-> Present(HASH_STATES, id), was |-> fed[id].st,
     chunks |-> fed[id].chunks,
     susp |-> \E i \in DOMAIN str : str[i].pc = "yield",
     ok |-> ok, ret |-> ret, own_ok |-> own_ok, own_ret |-> own_ret]

OwnDigest(e, id, md5_length) ==
    IF own[e][id].st = "live"
    THEN FinishDigest(Md5Update(Md5New, Flatten(own[e][id].chunks)), md5_length)
    ELSE <<>>

\* start_incremental_md5(session_id)
StartIncremental(e, id) ==
    /\ lib = "wasm"
    /\ table_lock = Free
    /\ table_lock' = Free
    /\ HASH_STATES' = Insert(HASH_STATES, id, Md5New)
    /\ call' = Called("start", e, id, 0, TRUE, <<>>, TRUE, <<>>)
    /\ fed' = [fed EXCEPT ![id] = Live(<<>>)]
    /\ own' = [own EXCEPT ![e][id] = Live(<<>>)]
    /\ UNCHANGED <<lib, nativeVars, wasm_log, str>>

\* update_incremental_md5(session_id, data) -> bool
UpdateIncremental(e, id, data) ==
    /\ lib = "wasm"
    /\ table_lock = Free
    /\ table_lock' = Free
    /\ Len(fed[id].chunks) < MaxUpdates
    /\ Len(own[e][id].chunks) < MaxUpdates
    /\ IF Present(HASH_STATES, id)
       THEN /\ HASH_STATES' = UpdateEntry(HASH_STATES, id, data)
            /\ call' = Called("update", e, id, 0, TRUE, <<>>,
                              own[e][id].st = "live", <<>>)
            /\ fed' = [fed EXCEPT ![id] = Live(Append(@.chunks, data))]
       ELSE /\ call' = Called("update", e, id, 0, FALSE, <<>>,
                              own[e][id].st = "live", <<>>)
            /\ UNCHANGED <<HASH_STATES, fed>>
    /\ own' = IF own[e][id].st = "live"
              THEN [own EXCEPT ![e][id] = Live(Append(@.chunks, data))]
              ELSE own
    /\ UNCHANGED <<lib, nativeVars, wasm_log, str>>

\* finalize_incremental_md5(session_id, md5_length) -> String
FinalizeIncremental(e, id, md5_length) ==
    /\ lib = "wasm"
    /\ table_lock = Free
    /\ table_lock' = Free
    /\ IF Present(HASH_STATES, id)
       THEN /\ HASH_STATES' = Remove(HASH_STATES, id)
            /\ call' = Called("finalize", e, id, md5_length, TRUE,
                              FinishDigest(HASH_STATES[id], md5_length),
                              own[e][id].st = "live", OwnDigest(e, id, md5_length))
            /\ fed' = [fed EXCEPT ![id] = Closed]
       ELSE /\ call' = Called("finalize", e, id, md5_length, FALSE, <<>>,
                              own[e][id].st = "live", OwnDigest(e, id, md5_length))
            /\ UNCHANGED <<HASH_STATES, fed>>
    /\ own' = IF own[e][id].st = "live" THEN [own EXCEPT ![e][id] = Closed] ELSE own
    /\ UNCHANGED <<lib, nativeVars, wasm_log, str>>

\* (mutant) removing an absent id empties the table
RemovedClearing(table, id) ==
    IF id \in DOMAIN table
    THEN [x \in DOMAIN table \ {id} |-> table[x]]
    ELSE [x \in {} |-> Md5New]

\* what states.remove(session_id) leaves of the table in cancel
Removed(table, id) == Remove(table, id)

\* cancel_incremental_md5(session_id) -> bool
CancelIncremental(e, id) ==
    /\ lib = "wasm"
    /\ table_lock = Free
    /\ table_lock' = Free
    /\ LET removed == Present(HASH_STATES, id)
       IN  /\ HASH_STATES' = Removed(HASH_STATES, id)
           /\ call' = Called("cancel", e, id, 0, removed, <<>>,
                             own[e][id].st = "live", <<>>)
           /\ fed' = IF removed THEN [fed EXCEPT ![id] = Closed] ELSE fed
    /\ own' = IF own[e][id].st = "live" THEN [own EXCEPT ![e][id] = Closed] ELSE own
    /\ UNCHANGED <<lib, nativeVars, wasm_log, str>>


\* ======================================================= the specifications
Ids == {"a", "b"}
Engines == {1, 2}
Invocations == {1, 2}
Vias == {"calculate_md5_async", "calculate_md5"}

EmptyTable == [x \in {} |-> Md5New]

InitEngines ==
    /\ enable_log = FALSE
    /\ par = ParIdle
    /\ single = SingleIdle
    /\ wasm_log = [e \in Engines |-> FALSE]
    /\ str = [i \in Invocations |-> StrIdle]
    /\ table_lock = Free
    /\ HASH_STATES = EmptyTable
    /\ call = CallNone
    /\ fed = [id \in Ids |-> Never]
    /\ own = [e \in Engines |-> [id \in Ids |-> Never]]

\* the native crate, its engine constructed with any requested task count
InitNative ==
    /\ lib = "native"
    /\ requested_count \in 0..MaxTaskCount
    /\ task_count = Md5CalculatorNew(requested_count)
    /\ InitEngines

\* the wasm crate
InitWasm ==
    /\ lib = "wasm"
    /\ requested_count = 0
    /\ task_count = Md5CalculatorNew(requested_count)
    /\ InitEngines

\* ---- the parallel digest over every small input
NextParallel ==
    \/ \E data \in SmallInputs, n \in {16, 32} :
          ParStart("calculate_md5_async", data, n)
    \/ \E i \in 0..MaxTaskCount : ParTask(i)
    \/ ParJoin
    \/ ParReturn
    \/ \E enable \in BOOLEAN : SetLogEnabled(enable)

SpecParallel == InitNative /\ [][NextParallel]_vars

\* ---- the streamed digest over small inputs and inputs of every size tier
LongLengths ==
    {StreamThreshold, StreamThreshold + 1, 640 * KiB + 7,
     2 * MiB - 1, 2 * MiB, 2 * MiB + 1, 4 * MiB + 100 * KiB,
     10 * MiB, 10 * MiB + 1, 10 * MiB + 300 * KiB + 5, 12 * MiB}

LongInputs == {Pattern(len, seed) : len \in LongLengths, seed \in {1, 3}}

StreamInputs == SmallInputs \cup LongInputs

NextStream ==
    \/ \E data \in StreamInputs, n \in {16, 32} : StreamStart(1, 1, data, n)
    \/ StreamResume(1)
    \/ StreamReturn(1)

SpecStream == InitWasm /\ [][NextStream]_vars

\* ---- the sessions of one engine
UpdateInputs == {<<>>, <<255, 0>>, Pattern(BlockLen - 1, 3)}

NextSession ==
    \/ \E id \in Ids : StartIncremental(1, id)
    \/ \E id \in Ids, data \in UpdateInputs : UpdateIncremental(1, id, data)
    \/ \E id \in Ids, n \in {16, 32} : FinalizeIncremental(1, id, n)
    \/ \E id \in Ids : CancelIncremental(1, id)

SpecSession == InitWasm /\ [][NextSession]_vars

\* ---- two engine instances using one session id
NextRegistry ==
    \/ \E e \in Engines : StartIncremental(e, "a")
    \/ \E e \in Engines, data \in {<<0>>, <<255, 0>>} : UpdateIncremental(e, "a", data)
    \/ \E e \in Engines : FinalizeIncremental(e, "a", 32)
    \/ \E e \in Engines : CancelIncremental(e, "a")

SpecRegistry == InitWasm /\ [][NextRegistry]_vars

\* ---- every digest-returning operation of both crates, every requested length
DigestInputs == {<<>>, <<255>>, <<0, 255>>}

NextDigest ==
    \/ \E via \in Vias, data \in DigestInputs, n \in Lengths : ParStart(via, data, n)
    \/ \E i \in 0..MaxTaskCount : ParTask(i)
    \/ ParJoin
    \/ ParReturn
    \/ \E data \in DigestInputs, n \in Lengths : CalculateMd5Single(data, n)
    \/ \E data \in DigestInputs \cup {Pattern(StreamThreshold + 1, 1)}, n \in Lengths :
          StreamStart(1, 1, data, n)
    \/ StreamReturn(1)
    \/ StartIncremental(1, "a")
    \/ \E data \in {<<>>, <<255, 0>>} : UpdateIncremental(1, "a", data)
    \/ \E n \in Lengths : FinalizeIncremental(1, "a", n)
    \/ CancelIncremental(1, "a")

SpecDigest == (InitNative \/ InitWasm) /\ [][NextDigest]_vars

\* ---- streamed digests of two invocations interleaving at their yields, with
\* the calls of one session between their steps
WasmInput(i) == Pattern(2 * MiB + i * 100 * KiB + 1, 2 * i - 1)

NextWasm ==
    \/ \E i \in Invocations : \E data \in {WasmInput(i)} : StreamStart(1, i, data, 32)
    \/ \E i \in Invocations : StreamResume(i)
    \/ \E i \in Invocations : StreamReturn(i)
    \/ StartIncremental(1, "a")
    \/ \E data \in {<<255, 0>>} : UpdateIncremental(1, "a", data)
    \/ FinalizeIncremental(1, "a", 32)
    \/ CancelIncremental(1, "a")

SpecWasm == InitWasm /\ [][NextWasm]_vars

\* ---- every operation that takes a lock or suspends: the parallel digest of
\* the native crate, the streamed digests and the session of the wasm crate
NextLocks ==
    \/ \E via \in Vias, data \in DigestInputs : ParStart(via, data, 32)
    \/ \E i \in 0..MaxTaskCount : ParTask(i)
    \/ ParJoin
    \/ ParReturn
    \/ NextWasm

SpecLocks == (InitNative \/ InitWasm) /\ [][NextLocks]_vars

\* ---- the sessions of two ids, one-shot streamed digests, short and long,
\* and the log switch between their calls
FrameInputs == {<<0, 255>>, Pattern(2 * MiB + 1, 1)}

NextFrame ==
    \/ \E id \in Ids : StartIncremental(1, id)
    \/ \E id \in Ids, data \in {<<255, 0>>} : UpdateIncremental(1, id, data)
    \/ \E id \in Ids : FinalizeIncremental(1, id, 32)
    \/ \E id \in Ids : CancelIncremental(1, id)
    \/ \E data \in FrameInputs : StreamStart(1, 1, data, 32)
    \/ StreamResume(1)
    \/ StreamReturn(1)
    \/ \E enable \in BOOLEAN : WasmSetLogEnabled(1, enable)

SpecFrame == InitWasm /\ [][NextFrame]_vars

\* ---- the suspending operations under a fair host: every suspended streamed
\* digest is eventually resumed, every launched task eventually runs, and the
\* caller is eventually polled once its join is ready
TerminationInputs == {<<>>, <<0, 255>>, Pattern(4 * MiB + 1, 1)}

NextTermination ==
    \/ \E via \in Vias, data \in DigestInputs \cup {<<0, 255, 0, 255>>} :
          ParStart(via, data, 32)
    \/ \E i \in 0..MaxTaskCount : ParTask(i)
    \/ ParJoin
    \/ ParReturn
    \/ \E i \in Invocations, data \in TerminationInputs : StreamStart(1, i, data, 32)
    \/ \E i \in Invocations : StreamResume(i)
    \/ \E i \in Invocations : StreamReturn(i)

SpecTermination ==
    /\ InitNative \/ InitWasm
    /\ [][NextTermination]_vars
    /\ \A i \in Invocations : WF_vars(StreamResume(i))
    /\ \A i \in 0..MaxTaskCount : WF_vars(ParTask(i))
    /\ WF_vars(ParJoin)


\* ================================================================ the claims
\* the reference single-pass digest of a byte sequence: its 16 bytes, its hex
RawDigest(data) == Md5Finalize(Md5Update(Md5New, data))
ReferenceDigest(data) == FormatHex(RawDigest(data))

\* ---------------------------------------------------------------------- C1
\* C1 as stated: for every byte sequence B, the empty one included, the
\* streamed digest asked for the full length returns the reference single-pass
\* digest of B.
C1_StreamedEqualsReference ==
    \A i \in Invocations :
        (str[i].pc = "done" /\ str[i].md5_length = 32)
            => str[i].ret = ReferenceDigest(str[i].data)

\* C1 amended: for every NON-EMPTY byte sequence B, of every chunk-size tier
\* and however many yields occurred, the streamed digest asked for the full
\* length returns the reference single-pass digest of B; for the empty
\* sequence it returns the empty string.
C1_StreamedEqualsReferenceNonEmpty ==
    \A i \in Invocations :
        (str[i].pc = "done" /\ str[i].md5_length = 32)
            => IF Len(str[i].data) > 0
               THEN str[i].ret = ReferenceDigest(str[i].data)
               ELSE str[i].ret = <<>>

\* a full-length digest of an input of the top tier was returned after yields
C1_Witness ==
    /\ str[1].pc = "done"
    /\ str[1].md5_length = 32
    /\ Len(str[1].data) > 10 * MiB
    /\ str[1].chunk_size = 256 * KiB
    /\ str[1].yields >= 2
    /\ Len(str[1].ret) = 32

\* ---------------------------------------------------------------------- C2
\* the slice i of N bytes cut in k, computed from the claim's words
RefSliceOf(data, k, i) ==
    LET base == Len(data) \div k
        rem == Len(data) % k
    IN  SubSeq(data, i * base + 1,
               i * base + base + (IF i = k - 1 THEN rem ELSE 0))

RECURSIVE ConcatSliceDigests(_, _, _)
ConcatSliceDigests(data, k, i) ==
    IF i >= k THEN <<>>
    ELSE RawDigest(RefSliceOf(data, k, i)) \o ConcatSliceDigests(data, k, i + 1)

EffectiveTasks == Min(task_count, Len(par.data))

\* C2: for every non-empty input and every effective task count k >= 1 the
\* parallel digest returns hash(digest(slice_0) || ... || digest(slice_{k-1})),
\* the slice digests in index order; for k = 1 that is hash(digest(B)), which
\* differs from digest(B).
C2_ParallelIsHashOfSliceDigests ==
    (par.pc = "done" /\ Len(par.data) > 0 /\ par.md5_length = 32)
        => /\ par.ret = ReferenceDigest(ConcatSliceDigests(par.data, EffectiveTasks, 0))
           /\ EffectiveTasks = 1
                => /\ par.ret = ReferenceDigest(RawDigest(par.data))
                   /\ par.ret # ReferenceDigest(par.data)

\* a parallel digest over three or more uneven slices has returned
C2_Witness ==
    /\ par.pc = "done"
    /\ par.md5_length = 32
    /\ par.actual_task_count >= 3
    /\ par.remainder > 0
    /\ Len(par.ret) = 32

\* ---------------------------------------------------------------------- C3
\* C3: whatever the order in which the tasks complete, slot i of the results
\* holds the digest of slice i once task i has completed and nothing before,
\* and the value returned is the one fixed by the input, the task count and
\* the requested length alone.
C3_DeterministicUnderInterleaving ==
    /\ par.pc \in {"join", "done"}
         => \A i \in DOMAIN par.tasks :
               par.results[i] =
                  IF i \in par.done
                  THEN RawDigest(RefSliceOf(par.data, EffectiveTasks, i))
                  ELSE <<>>
    /\ (par.pc = "done" /\ Len(par.data) > 0)
         => par.ret = SubSeq(ReferenceDigest(ConcatSliceDigests(par.data,
                                                                EffectiveTasks, 0)),
                             1, Min(par.md5_length, 32))

\* the operation returned after its tasks completed in reverse index order
C3_Witness ==
    /\ par.pc = "done"
    /\ par.actual_task_count >= 3
    /\ \A j \in 1..Len(par.order) : par.order[j] = par.actual_task_count - j
    /\ par.results[0] # par.results[par.actual_task_count - 1]

\* ---------------------------------------------------------------------- C4
RECURSIVE SumLengths(_, _)
SumLengths(tasks, i) ==
    IF i \notin DOMAIN tasks THEN 0
    ELSE (tasks[i].end - tasks[i].start) + SumLengths(tasks, i + 1)

\* C4: for N >= 1 the slices are contiguous from 0, pairwise disjoint, their
\* lengths sum to N, every slice but the last has N div k' bytes and the last
\* has N div k' + N mod k' bytes, k' the effective task count.
C4_SlicesPartitionInput ==
    (par.pc \in {"join", "done"} /\ Len(par.data) >= 1)
        => LET N == Len(par.data)
               k == par.actual_task_count
               t == par.tasks
           IN  /\ DOMAIN t = 0..(k - 1)
               /\ t[0].start = 0
               /\ t[k - 1].end = N
               /\ \A i \in 0..(k - 2) : t[i + 1].start = t[i].end
               /\ \A i, j \in 0..(k - 1) : i < j => t[i].end <= t[j].start
               /\ \A i \in 0..(k - 1) : t[i].start <= t[i].end
               /\ SumLengths(t, 0) = N
               /\ \A i \in 0..(k - 2) : t[i].end - t[i].start = N \div k
               /\ t[k - 1].end - t[k - 1].start = (N \div k) + (N % k)

\* slices were cut with a remainder for the last one to absorb
C4_Witness ==
    /\ par.pc = "join"
    /\ par.actual_task_count >= 2
    /\ par.remainder >= 1
    /\ par.tasks[par.actual_task_count - 1].end
         - par.tasks[par.actual_task_count - 1].start > par.chunk_size


\* ---------------------------------------------------------------------- C5
\* C5: start(id); update(id, x); update(id, y); finalize(id, full length)
\* returns the single-shot digest of x || y, and the updates of a started
\* session return true (stated for every number of updates up to MaxUpdates).
C5_SessionAlgebra ==
    /\ (call.op = "finalize" /\ call.was = "live" /\ call.md5_length = 32)
          => call.ret = ReferenceDigest(Flatten(call.chunks))
    /\ (call.op = "update" /\ call.was = "live") => call.ok

\* finalize returned after start, update(x), update(y), x || y longer than a block
C5_Witness ==
    /\ call.op = "finalize"
    /\ call.md5_length = 32
    /\ Len(call.chunks) = 2
    /\ call.chunks[1] # <<>>
    /\ call.chunks[2] # <<>>
    /\ Len(Flatten(call.chunks)) > BlockLen
    /\ Len(call.ret) = 32

\* ---------------------------------------------------------------------- C6
\* C6: update, finalize and cancel called with an id that is not in the table
\* return the not-found sentinel (false, the empty string) and leave the whole
\* table unchanged.
C6_UnknownIdIsNotFound ==
    [][(/\ call'.tick # call.tick
        /\ call'.op \in {"update", "finalize", "cancel"}
        /\ ~Present(HASH_STATES, call'.id))
          => (/\ HASH_STATES' = HASH_STATES
              /\ call'.ok = FALSE
              /\ call'.ret = <<>>)]_vars

\* a call on an absent id has returned while another session is live
C6_Witness ==
    /\ call.op \in {"update", "finalize", "cancel"}
    /\ ~call.found
    /\ DOMAIN HASH_STATES # {}

\* ---------------------------------------------------------------------- C7
\* C7: once finalize or cancel has removed an active session id, and until a
\* start of that id, the id is absent and every finalize returns the empty
\* string, every update false, every cancel false.
C7_ClosedStaysNotFound ==
    /\ \A id \in Ids : fed[id].st = "closed" => ~Present(HASH_STATES, id)
    /\ (call.op \in {"update", "finalize", "cancel"} /\ call.was = "closed")
          => (/\ ~call.found
              /\ call.ok = FALSE
              /\ call.ret = <<>>)

\* a finalize was repeated on a session already finalized or cancelled
C7_Witness ==
    /\ call.op = "finalize"
    /\ call.was = "closed"
    /\ fed[call.id].st = "closed"

\* ---------------------------------------------------------------------- C8
\* C8: the session table is scoped to the engine instance: every session call
\* of an engine returns what it returns on a table holding only the sessions
\* that engine itself started, fed and removed, whatever the other engine does
\* with the same id.
C8_TableScopedToInstance ==
    /\ call.op \in {"update", "cancel"} => call.ok = call.own_ok
    /\ call.op = "finalize" => call.ret = call.own_ret

\* ---------------------------------------------------------------------- C9
\* C9: for the empty byte sequence every digest function (streamed, parallel
\* and its wrapper, single-task) returns the empty string for every requested
\* length, and no hash state absorbs anything.
C9_EmptyInputEmptyResult ==
    /\ (par.pc = "done" /\ par.data = <<>>)
          => (par.ret = <<>> /\ par.results = <<>>)
    /\ (str[1].pc = "done" /\ str[1].data = <<>>)
          => (str[1].ret = <<>> /\ str[1].hasher = NoHasher)
    /\ (single.pc = "done" /\ single.data = <<>>) => single.ret = <<>>

\* --------------------------------------------------------------------- C10
Prefix(full, n) == SubSeq(full, 1, Min(n, 32))

\* C10: every operation that returns a digest returns exactly the first
\* min(n, 32) characters of the full 32-character hex digest, for every
\* requested length n >= 0 (16: the first 16; 32 and 100: all 32).
C10_TruncationIsPrefix ==
    /\ (par.pc = "done" /\ par.data # <<>>)
          => /\ par.ret = Prefix(ReferenceDigest(ConcatSliceDigests(par.data,
                                                     EffectiveTasks, 0)),
                                 par.md5_length)
             /\ Len(par.ret) = Min(par.md5_length, 32)
    /\ (str[1].pc = "done" /\ str[1].data # <<>>)
          => /\ str[1].ret = Prefix(ReferenceDigest(str[1].data), str[1].md5_length)
             /\ Len(str[1].ret) = Min(str[1].md5_length, 32)
    /\ single.pc = "done"
          => /\ single.ret = Prefix(ReferenceDigest(single.data), single.md5_length)
             /\ Len(single.ret) = Min(single.md5_length, 32)
    /\ (call.op = "finalize" /\ call.found)
          => /\ call.ret = Prefix(ReferenceDigest(Flatten(call.chunks)),
                                  call.md5_length)
             /\ Len(call.ret) = Min(call.md5_length, 32)

\* a streamed digest asked for 100 characters returned all 32 and a finalize
\* asked for 16 returned 16
C10_Witness ==
    /\ str[1].pc = "done"
    /\ str[1].md5_length = 100
    /\ Len(str[1].ret) = 32
    /\ call.op = "finalize"
    /\ call.found
    /\ call.md5_length = 16
    /\ Len(call.ret) = 16

C12_StartReplaces ==
    /\ [](\A id \in Ids :
             fed[id].st = "live"
                => /\ Present(HASH_STATES, id)
                   /\ FinishDigest(HASH_STATES[id], 32)
                         = ReferenceDigest(Flatten(fed[id].chunks)))
    /\ [][(call'.tick # call.tick /\ call'.op = "start")
            => /\ call'.ok
               /\ DOMAIN HASH_STATES' = DOMAIN HASH_STATES \cup {call'.id}
               /\ HASH_STATES'[call'.id] = Md5New
               /\ \A x \in DOMAIN HASH_STATES \ {call'.id} :
                      HASH_STATES'[x] = HASH_STATES[x]]_vars

\* a start has just run on an id whose session was live and had absorbed bytes,
\* and the table holds a fresh state for it
C12_Witness ==
    /\ call.op = "start"
    /\ call.found
    /\ call.was = "live"
    /\ Flatten(call.chunks) # <<>>
    /\ HASH_STATES[call.id] = Md5New

\* --------------------------------------------------------------------- C13
\* C13: construction with task count 0 substitutes 4; in every reachable state
\* of an engine, whatever operations ran on it, the stored task count is 4 if 0
\* was requested and the requested value otherwise, hence >= 1, and the
\* parallel operation on a non-empty input divides by an effective task count
\* >= 1 when it computes the slice size.
C13_TaskCountAtLeastOne ==
    /\ task_count >= 1
    /\ task_count = (IF requested_count = 0 THEN 4 ELSE requested_count)
    /\ (par.pc \in {"join", "done"} /\ par.data # <<>>)
          => /\ par.actual_task_count >= 1
             /\ par.chunk_size * par.actual_task_count + par.remainder
                   = Len(par.data)

\* an engine constructed with 0 holds 4 after a parallel digest of a non-empty
\* input has returned and logging has been switched on
C13_Witness ==
    /\ requested_count = 0
    /\ task_count = 4
    /\ par.pc = "done"
    /\ par.data # <<>>
    /\ enable_log

\* --------------------------------------------------------------------- C14
\* C14: for every data length N >= 1 the parallel operation works with
\* min(configured task count, N) tasks: that many slices and that many result
\* slots, and every slice (every slice a task hashes) has length >= 1, also
\* when the configured task count exceeds N.
C14_EffectiveTaskCountIsMin ==
    (par.pc \in {"join", "done"} /\ par.data # <<>>)
        => LET n == Len(par.data)
               k == IF task_count <= n THEN task_count ELSE n
           IN  /\ par.actual_task_count = k
               /\ DOMAIN par.tasks = 0..(k - 1)
               /\ DOMAIN par.results = 0..(k - 1)
               /\ \A i \in DOMAIN par.tasks :
                      /\ par.tasks[i].end - par.tasks[i].start >= 1
                      /\ Len(Slice(par.data, par.tasks[i].start,
                                   par.tasks[i].end)) >= 1

\* an engine configured with more tasks than the input has bytes waits at the
\* join of one task per byte, some of them complete
C14_Witness ==
    /\ par.pc = "join"
    /\ Len(par.data) >= 2
    /\ task_count > Len(par.data)
    /\ par.actual_task_count = Len(par.data)
    /\ par.done # {}

\* --------------------------------------------------------------------- C15
\* C15: barrier of the parallel operation. The step that combines and returns
\* is taken only when every per-slice task has completed, and then every slot
\* of the result array has been written exactly once, by the task of its own
\* index, with the digest of that task's slice; while the operation waits at
\* the join a slot has been written once by its own task if that task has
\* completed and not at all otherwise; the returned operation has all its
\* tasks complete.
SlotsWrittenOnce(p) ==
    \A i \in DOMAIN p.tasks :
        /\ p.writers[i] = <<i>>
        /\ p.results[i] = RawDigest(Slice(p.data, p.tasks[i].start, p.tasks[i].end))

C15_Barrier ==
    /\ [][(par.pc = "join" /\ par'.pc = "done")
            => (par.done = DOMAIN par.tasks /\ SlotsWrittenOnce(par))]_vars
    /\ [](par.pc = "join"
            => \A i \in DOMAIN par.tasks :
                   par.writers[i] = IF i \in par.done THEN <<i>> ELSE <<>>)
    /\ []((par.pc = "done" /\ par.data # <<>>)
            => (par.done = DOMAIN par.tasks /\ SlotsWrittenOnce(par)))

\* the operation has returned after three or more tasks that did not complete
\* in index order
C15_Witness ==
    /\ par.pc = "done"
    /\ par.actual_task_count >= 3
    /\ par.order[1] # 0
    /\ Len(par.order) = par.actual_task_count

\* --------------------------------------------------------------------- C16
\* C16: a session that is in the table stays there with its state and its
\* absorbed bytes unchanged across every step that is not a session call on
\* its own id (calls on other ids, steps of one-shot digests); it leaves the
\* table only by a finalize or cancel on its id, and its state changes only by
\* an update or start on its id.
C16_SessionFrame ==
    [][\A id \in Ids :
          LET onId == call'.tick # call.tick /\ call'.id = id
          IN  Present(HASH_STATES, id)
                 => /\ ~onId => /\ Present(HASH_STATES', id)
                                /\ HASH_STATES'[id] = HASH_STATES[id]
                                /\ fed'[id] = fed[id]
                    /\ ~Present(HASH_STATES', id)
                          => (onId /\ call'.op \in {"finalize", "cancel"})
                    /\ (Present(HASH_STATES', id)
                          /\ HASH_STATES'[id] # HASH_STATES[id])
                          => (onId /\ call'.op \in {"update", "start"})]_vars

\* session "a" is in the table with absorbed bytes after a finalize that
\* found session "b", called while a streamed digest is suspended at a yield
C16_Witness ==
    /\ Present(HASH_STATES, "a")
    /\ fed["a"].chunks # <<>>
    /\ HASH_STATES["a"] = Md5Update(Md5New, Flatten(fed["a"].chunks))
    /\ call.op = "finalize"
    /\ call.id = "b"
    /\ call.found
    /\ call.susp
    /\ str[1].pc = "yield"

\* --------------------------------------------------------------------- C17
\* C17: suspension policy of the streamed digest. An invocation on an input
\* longer than 512 KiB works with chunks of 128 KiB up to 10 MiB and 256 KiB
\* above; it is suspended only at a positive multiple of 2 MiB of processed
\* bytes and has yielded once for each multiple of 2 MiB it has reached, so it
\* absorbs at most 2 MiB between two suspensions; its hasher holds exactly the
\* first `processed` bytes of its input, and a resumption absorbs the bytes
\* that follow them (none, when the yield came after the last chunk). An input of at most 512 KiB is absorbed whole in one
\* update without a yield.
C17_SuspensionPolicy ==
    /\ [](\A i \in Invocations :
             LET s == str[i]
                 n == Len(s.data)
             IN  /\ s.pc = "yield"
                       => /\ n > 512 * KiB
                          /\ s.processed > 0
                          /\ s.processed <= n
                          /\ s.processed % (2 * 1024 * KiB) = 0
                 /\ (s.pc \in {"yield", "done"} /\ n > 512 * KiB)
                       => /\ s.chunk_size = (IF n > 10 * 1024 * KiB
                                             THEN 256 * KiB ELSE 128 * KiB)
                          /\ s.yields = s.processed \div (2 * 1024 * KiB)
                          /\ s.segment <= 2 * 1024 * KiB
                          /\ s.hasher = Md5Update(Md5New,
                                                  SubSeq(s.data, 1, s.processed))
                          /\ s.pc = "done" => s.processed = n
                 /\ (s.pc = "done" /\ n > 0 /\ n <= 512 * KiB)
                       => /\ s.yields = 0
                          /\ s.processed = n
                          /\ s.segment = n
                          /\ s.hasher = Md5Update(Md5New, s.data))
    /\ [][\A i \in Invocations :
             (str[i].pc = "yield" /\ str'[i] # str[i])
                => /\ str'[i].processed >= str[i].processed
                   /\ str'[i].processed - str[i].processed <= 2 * 1024 * KiB
                   /\ str'[i].hasher =
                         Md5Update(str[i].hasher,
                                   SubSeq(str[i].data, str[i].processed + 1,
                                          str'[i].processed))]_vars

\* an invocation on an input longer than 10 MiB is suspended at its second
\* yield, 4 MiB processed in chunks of 256 KiB
C17_Witness ==
    /\ str[1].pc = "yield"
    /\ Len(str[1].data) > 10 * 1024 * KiB
    /\ str[1].chunk_size = 256 * KiB
    /\ str[1].yields = 2
    /\ str[1].processed = 4 * 1024 * KiB
    /\ str[1].segment = 2 * 1024 * KiB

\* --------------------------------------------------------------------- C18
\* C18: a hash state belongs to one invocation or one session. With two
\* streamed digests in progress at once, interleaving at their yields, and
\* session calls made during their suspensions, every streamed digest returns
\* the reference digest of its own input, is suspended with exactly its own
\* processed bytes absorbed, and every finalize that finds its session returns
\* the reference digest of the bytes given to that session since its start.
C18_HashStateOwnedByOne ==
    /\ \A i \in Invocations :
          /\ (str[i].pc = "done" /\ str[i].data # <<>>)
                => str[i].ret = ReferenceDigest(str[i].data)
          /\ str[i].pc = "yield"
                => str[i].hasher = Md5Update(Md5New,
                                            SubSeq(str[i].data, 1, str[i].processed))
    /\ (call.op = "finalize" /\ call.found)
          => call.ret = ReferenceDigest(Flatten(call.chunks))

\* invocation 1 has returned after running while invocation 2 was suspended,
\* invocation 2, started while invocation 1 was suspended, is suspended, and
\* a finalize called during a suspension has returned a fed session's digest
C18_Witness ==
    /\ str[1].pc = "done"
    /\ str[1].overlapped
    /\ str[1].yields >= 1
    /\ str[2].pc = "yield"
    /\ str[2].overlapped
    /\ str[2].data # str[1].data
    /\ call.op = "finalize"
    /\ call.found
    /\ call.susp
    /\ Flatten(call.chunks) # <<>>
    /\ Len(call.ret) = 32

\* --------------------------------------------------------------------- C19
\* C19: termination under a fair host. A streamed digest suspended at a yield
\* eventually returns, having processed no more than its finite input and
\* yielded no more often than that input has multiples of 2 MiB; a parallel
\* digest waiting at its join eventually passes it and returns.
C19_Termination ==
    /\ \A i \in Invocations : (str[i].pc = "yield") ~> (str[i].pc = "done")
    /\ (par.pc = "join") ~> (par.pc = "done")
    /\ [](\A i \in Invocations :
             /\ str[i].processed <= Len(str[i].data)
             /\ str[i].yields <= Len(str[i].data) \div (2 * 1024 * KiB))

\* a streamed digest has returned after two yields while the other invocation
\* was in progress
C19_Witness ==
    /\ str[1].pc = "done"
    /\ str[1].yields = 2
    /\ str[1].processed = Len(str[1].data)
    /\ str[1].overlapped
    /\ Len(str[1].ret) = 32

=============================================================================
